---- MODULE Spec2Model ----
(***************************************************************************)
(* Model of videos.py: lire_instance (parser of a Hash Code 2017 instance), *)
(* build_model (generation of the variables and constraints of the MIP     *)
(* through the solver interface), resol_restit (solve, extraction and      *)
(* serialisation of the placement) and main, which sequences them.         *)
(*                                                                         *)
(* Python lists and insertion-ordered dicts are sequences; ids are 0-based *)
(* as in the source, so element i of a list is seq[i + 1].  The solver is   *)
(* an external collaborator: the model records the calls made to it        *)
(* (addVar, addConstr, optimize, dispose, ...), lets any of them raise,    *)
(* and lets optimize return any SolCount and any variable values.          *)
(***************************************************************************)
EXTENDS Integers, Sequences, FiniteSets, TLC

VARIABLES
    pc,                  \* position of the control in main and its callees
    file,                \* the input file: a sequence of lines, each a sequence of integer tokens
    pos,                 \* number of lines of file already consumed by readline
    V, E, R, C, X,       \* header values (lire_instance locals, then build_model arguments)
    video_sizes,         \* list of sizes
    endpoints,           \* list of [ld, caches], caches an ordered dict <<c_id, latency>>
    requests,            \* list of [id, video, endpoint, count]
    e,                   \* lire_instance: index of the endpoint block being read
    ld_k,                \* lire_instance: <<ld, k>> of the current endpoint header
    cache_connections,   \* lire_instance: dict of the current endpoint
    env, model,          \* solver resources: "none", "live" or "disposed"
    vars,                \* solver: variables created by addVar, in order
    constrs,             \* solver: constraints registered by addConstr, in order
    x,                   \* build_model: ordered dict <<v, c>> -> variable handle
    capacity,            \* build_model: c -> LinExpr, a sequence of <<handle, coefficient>>
    ri, ci,              \* build_model: index of the current request / cache item
    y_vars_for_request,  \* build_model: handles of the y variables of the current request
    SolCount,            \* solver: number of solutions after optimize (-1 before)
    Xval,                \* solver: handle -> solved value, in tenths
    reads,               \* number of solved attributes (ObjVal, MIPGap, var.X) read so far
    used_caches,         \* resol_restit: ordered dict c -> sorted list of videos
    out                  \* the output file videos.out: "absent" or a sequence of lines

vars_lire == <<file, pos, V, E, R, C, X, video_sizes, endpoints, requests,
               e, ld_k, cache_connections>>
vars_solver == <<env, model, vars, constrs, SolCount, Xval>>
vars_build == <<x, capacity, ri, ci, y_vars_for_request>>
vars_restit == <<reads, used_caches, out>>
allvars == <<pc, vars_lire, vars_solver, vars_build, vars_restit>>

----------------------------------------------------------------------------
(* Bounds of the model *)
MaxLines == 5     \* lines of an input file
MaxV == 2         \* videos
MaxE == 2         \* endpoint blocks declared by a header
MaxR == 2         \* requests
MaxC == 2         \* caches
MaxK == 2         \* cache lines declared by an endpoint header of a file
MaxEp == 1        \* endpoints of an instance given to build_model
MaxLat == 2       \* latencies
MaxSize == 2      \* video sizes
MaxX == 2         \* cache capacity
MaxN == 2         \* request counts
MaxSol == 1       \* SolCount reported by optimize

HeaderFields == 5   \* "V E R C X"
EpFields == 2       \* "ld k" and "c_id latency"
ReqFields == 3      \* "video endpoint count"
Half == 5           \* the threshold 0.5 of "var.X > 0.5", values being in tenths

----------------------------------------------------------------------------
(* Python helpers *)

\* f.readline().split(): the tokens of the next line, [] at end of file
readline(f, p) == IF p < Len(f) THEN f[p + 1] ELSE <<>>

\* position of the stream after a readline
advance(f, p) == IF p < Len(f) THEN p + 1 ELSE p

\* d[key] = val on an insertion-ordered dict: overwrite in place, or append
DictSet(d, key, val) ==
    IF \E i \in 1..Len(d) : d[i][1] = key
    THEN [i \in 1..Len(d) |-> IF d[i][1] = key THEN <<key, val>> ELSE d[i]]
    ELSE Append(d, <<key, val>>)

\* key in d
DictHas(d, key) == \E i \in 1..Len(d) : d[i][1] = key

\* d[key]
DictGet(d, key) == d[CHOOSE i \in 1..Len(d) : d[i][1] = key][2]

----------------------------------------------------------------------------
(* lire_instance *)

\* the loop heads "for e in range(E)" and "for r in range(R)": where control
\* goes once ne endpoint blocks and nr requests have been read
AfterEndpoint(ne, nr, nE, nR) ==
    IF ne < nE THEN "lire_ep_header"
    ELSE IF nr < nR THEN "lire_request"
    ELSE "lire_return"

LireHeader ==
    /\ pc = "lire_header"
    /\ LET header == readline(file, pos) IN
       /\ pos' = advance(file, pos)
       /\ IF header = <<>> \/ Len(header) # HeaderFields
          THEN /\ pc' = "lire_raised"
               /\ UNCHANGED <<V, E, R, C, X>>
          ELSE /\ V' = header[1]
               /\ E' = header[2]
               /\ R' = header[3]
               /\ C' = header[4]
               /\ X' = header[5]
               /\ pc' = "lire_sizes"
    /\ UNCHANGED <<file, video_sizes, endpoints, requests, e, ld_k, cache_connections>>
    /\ UNCHANGED <<vars_solver, vars_build, vars_restit>>

LireSizes ==
    /\ pc = "lire_sizes"
    /\ LET sizes_line == readline(file, pos) IN
       /\ pos' = advance(file, pos)
       /\ IF Len(sizes_line) # V
          THEN /\ pc' = "lire_raised"
               /\ UNCHANGED video_sizes
          ELSE /\ video_sizes' = sizes_line
               /\ pc' = AfterEndpoint(0, 0, E, R)
    /\ UNCHANGED <<file, V, E, R, C, X, endpoints, requests, e, ld_k, cache_connections>>
    /\ UNCHANGED <<vars_solver, vars_build, vars_restit>>

LireEpHeader ==
    /\ pc = "lire_ep_header"
    /\ LET ep_header == readline(file, pos) IN
       /\ pos' = advance(file, pos)
       /\ IF Len(ep_header) # EpFields
          THEN /\ pc' = "lire_raised"
               /\ UNCHANGED <<ld_k, cache_connections, endpoints, e>>
          ELSE IF ep_header[2] > 0
          THEN /\ ld_k' = ep_header
               /\ cache_connections' = <<>>
               /\ pc' = "lire_cache_line"
               /\ UNCHANGED <<endpoints, e>>
          ELSE /\ ld_k' = ep_header
               /\ cache_connections' = <<>>
               /\ endpoints' = Append(endpoints, [ld |-> ep_header[1], caches |-> <<>>])
               /\ e' = e + 1
               /\ pc' = AfterEndpoint(e + 1, 0, E, R)
    /\ UNCHANGED <<file, V, E, R, C, X, video_sizes, requests>>
    /\ UNCHANGED <<vars_solver, vars_build, vars_restit>>

LireCacheLine ==
    /\ pc = "lire_cache_line"
    /\ LET line == readline(file, pos) IN
       /\ pos' = advance(file, pos)
       /\ IF Len(line) # EpFields
          THEN \* the unpacking "c_id, latency = ..." raises ValueError
               /\ pc' = "lire_raised"
               /\ UNCHANGED <<ld_k, cache_connections, endpoints, e>>
          ELSE LET cc == DictSet(cache_connections, line[1], line[2]) IN
               IF ld_k[2] > 1
               THEN /\ cache_connections' = cc
                    /\ ld_k' = <<ld_k[1], ld_k[2] - 1>>
                    /\ pc' = "lire_cache_line"
                    /\ UNCHANGED <<endpoints, e>>
               ELSE /\ cache_connections' = cc
                    /\ ld_k' = <<ld_k[1], 0>>
                    /\ endpoints' = Append(endpoints, [ld |-> ld_k[1], caches |-> cc])
                    /\ e' = e + 1
                    /\ pc' = AfterEndpoint(e + 1, 0, E, R)
    /\ UNCHANGED <<file, V, E, R, C, X, video_sizes, requests>>
    /\ UNCHANGED <<vars_solver, vars_build, vars_restit>>

LireRequest ==
    /\ pc = "lire_request"
    /\ LET line == readline(file, pos) IN
       /\ pos' = advance(file, pos)
       /\ IF Len(line) # ReqFields
          THEN /\ pc' = "lire_raised"
               /\ UNCHANGED requests
          ELSE /\ requests' = Append(requests,
                      [id |-> Len(requests), video |-> line[1],
                       endpoint |-> line[2], count |-> line[3]])
               /\ pc' = AfterEndpoint(E, Len(requests) + 1, E, R)
    /\ UNCHANGED <<file, V, E, R, C, X, video_sizes, endpoints, e, ld_k, cache_connections>>
    /\ UNCHANGED <<vars_solver, vars_build, vars_restit>>

\* the "with" block is left, the file closed, and the instance returned
LireReturn ==
    /\ pc = "lire_return"
    /\ pc' = "lire_returned"
    /\ UNCHANGED <<vars_lire, vars_solver, vars_build, vars_restit>>

lire_instance ==
    \/ LireHeader
    \/ LireSizes
    \/ LireEpHeader
    \/ LireCacheLine
    \/ LireRequest
    \/ LireReturn

----------------------------------------------------------------------------
(* Input files of the parser: every file of at most MaxLines lines over a   *)
(* small alphabet of lines (the token values that no test of the parser     *)
(* reads are all 1).                                                        *)

OtherLines ==
    {<<>>, <<1>>, <<1, 1, 1>>} \cup {<<1, k>> : k \in 0..MaxK}

\* V >= 1: a size line of no field reads like the end of the file
HeaderLines ==
    {<<v, ne, nr, 1, 1>> : v \in 1..MaxV, ne \in 0..MaxE, nr \in 0..MaxR}

\* no trailing blank line: readline reads it like the end of the file
Files ==
    {<<>>} \cup
    UNION {{f \in {<<h>> \o rest : h \in HeaderLines \cup OtherLines,
                                  rest \in [1..n -> OtherLines]} :
               f[Len(f)] # <<>>}
           : n \in 0..(MaxLines - 1)}

NoSolver ==
    /\ env = "none"
    /\ model = "none"
    /\ vars = <<>>
    /\ constrs = <<>>
    /\ SolCount = -1
    /\ Xval = <<>>
    /\ x = <<>>
    /\ capacity = <<>>
    /\ ri = 0
    /\ ci = 0
    /\ y_vars_for_request = <<>>
    /\ reads = 0
    /\ used_caches = <<>>
    /\ out = "absent"

InitLire ==
    /\ pc = "lire_header"
    /\ file \in Files
    /\ pos = 0
    /\ V = 0 /\ E = 0 /\ R = 0 /\ C = 0 /\ X = 0
    /\ video_sizes = <<>>
    /\ endpoints = <<>>
    /\ requests = <<>>
    /\ e = 0
    /\ ld_k = <<0, 0>>
    /\ cache_connections = <<>>
    /\ NoSolver

SpecLire == InitLire /\ [][lire_instance]_allvars

----------------------------------------------------------------------------
(* build_model *)

\* Eligible with the comparison loosened: "if lc > ld: continue"
EligibleLoose(lc, ld) == ~(lc > ld)

\* Eligible with the comparison reversed: "if lc <= ld: continue"
EligibleReversed(lc, ld) == ~(lc <= ld)

\* "if lc >= ld: continue": the pair is kept when the cache is strictly faster
Eligible(lc, ld) == ~(lc >= ld)

\* saving = (ld - lc) * num
Saving(ld, lc, num) == (ld - lc) * num

\* model.addVar(vtype=GRB.BINARY, obj=..., name=...): the new list of variables;
\* the handle of the new variable is its index
addVar(vs, kind, a, b, obj) ==
    Append(vs, [kind |-> kind, a |-> a, b |-> b, obj |-> obj])

\* model.addConstr(sum of coef * var <= rhs, name=...)
addConstr(cs, kind, a, b, terms, rhs) ==
    Append(cs, [kind |-> kind, a |-> a, b |-> b, terms |-> terms, rhs |-> rhs])

\* Fresh without the lookup: a placement variable per request
FreshAlways(xd, vid, cid) == TRUE

\* "if (vid, cid) not in x"
Fresh(xd, vid, cid) == ~DictHas(xd, <<vid, cid>>)

\* CapacityAdd moved out of the "if": a term per request
CapacityAddEach(cap, fresh, cid, xh, size) ==
    [cap EXCEPT ![cid + 1] = Append(@, <<xh, size>>)]

\* "capacity[cid].add(x[vid, cid], video_sizes[vid])", inside that "if"
CapacityAdd(cap, fresh, cid, xh, size) ==
    IF fresh THEN [cap EXCEPT ![cid + 1] = Append(@, <<xh, size>>)] ELSE cap

\* quicksum over the last serving variable only, as "gp.quicksum([y_rc])"
quicksumLast(ys) == <<<<ys[Len(ys)], 1>>>>

\* gp.quicksum(y_vars_for_request): each variable with coefficient 1
quicksum(ys) == [i \in 1..Len(ys) |-> <<ys[i], 1>>]

\* env = gp.Env()
BuildEnv ==
    /\ pc = "build_env"
    /\ env' = "live"
    /\ pc' = "build_new_model"
    /\ UNCHANGED <<model, vars, constrs, SolCount, Xval>>
    /\ UNCHANGED <<vars_lire, vars_build, vars_restit>>

\* model = gp.Model("VideoStreaming", env=env), its parameters, x = {} and
\* capacity = {c: gp.LinExpr() for c in range(C)}
BuildNewModel ==
    /\ pc = "build_new_model"
    /\ model' = "live"
    /\ x' = <<>>
    /\ capacity' = [c \in 1..C |-> <<>>]
    /\ ri' = 0
    /\ pc' = "build_request"
    /\ UNCHANGED <<env, vars, constrs, SolCount, Xval, ci, y_vars_for_request>>
    /\ UNCHANGED <<vars_lire, vars_restit>>

\* head of "for request in requests": next request, or on to the capacity loop
BuildRequest ==
    /\ pc = "build_request"
    /\ IF ri < Len(requests)
       THEN /\ y_vars_for_request' = <<>>
            /\ ci' = 0
            /\ pc' = "build_cache"
       ELSE /\ ci' = 0
            /\ pc' = "build_capacity"
            /\ UNCHANGED y_vars_for_request
    /\ UNCHANGED <<x, capacity, ri>>
    /\ UNCHANGED <<vars_lire, vars_solver, vars_restit>>

\* one iteration of "for cid, lc in endpoints[eid]["caches"].items()"
BuildCache ==
    /\ pc = "build_cache"
    /\ LET request == requests[ri + 1]
           vid == request.video
           eid == request.endpoint
           num == request.count
           ld == endpoints[eid + 1].ld
           items == endpoints[eid + 1].caches
       IN
       /\ ci < Len(items)
       /\ LET cid == items[ci + 1][1]
              lc == items[ci + 1][2]
              fresh == Fresh(x, vid, cid)
              vars1 == IF fresh THEN addVar(vars, "x", vid, cid, 0) ELSE vars
              x1 == IF fresh THEN DictSet(x, <<vid, cid>>, Len(vars1)) ELSE x
              xh == DictGet(x1, <<vid, cid>>)
              vars2 == addVar(vars1, "y", request.id, cid, Saving(ld, lc, num))
              y_rc == Len(vars2)
          IN
          IF ~Eligible(lc, ld)
          THEN UNCHANGED <<vars, constrs, x, capacity, y_vars_for_request>>
          ELSE /\ vars' = vars2
               /\ x' = x1
               /\ capacity' = CapacityAdd(capacity, fresh, cid, xh, video_sizes[vid + 1])
               /\ y_vars_for_request' = Append(y_vars_for_request, y_rc)
               /\ constrs' = addConstr(constrs, "link", request.id, cid,
                                       <<<<y_rc, 1>>, <<xh, -1>>>>, 0)
       /\ ci' = ci + 1
    /\ UNCHANGED <<pc, ri, env, model, SolCount, Xval>>
    /\ UNCHANGED <<vars_lire, vars_restit>>

\* after the inner loop: the assignment constraint of the request, if any
BuildAssign ==
    /\ pc = "build_cache"
    /\ ci >= Len(endpoints[requests[ri + 1].endpoint + 1].caches)
    /\ constrs' =
          IF y_vars_for_request # <<>>
          THEN addConstr(constrs, "assign", requests[ri + 1].id, -1,
                         quicksum(y_vars_for_request), 1)
          ELSE constrs
    /\ ri' = ri + 1
    /\ pc' = "build_request"
    /\ UNCHANGED <<env, model, vars, SolCount, Xval, x, capacity, ci, y_vars_for_request>>
    /\ UNCHANGED <<vars_lire, vars_restit>>

\* one iteration of "for c in range(C)", c being ci
BuildCapacity ==
    /\ pc = "build_capacity"
    /\ IF ci < C
       THEN /\ constrs' =
                 IF Len(capacity[ci + 1]) > 0
                 THEN addConstr(constrs, "cap", ci, ci, capacity[ci + 1], X)
                 ELSE constrs
            /\ ci' = ci + 1
            /\ pc' = "build_capacity"
       ELSE /\ pc' = "build_write"
            /\ UNCHANGED <<constrs, ci>>
    /\ UNCHANGED <<env, model, vars, SolCount, Xval, x, capacity, ri, y_vars_for_request>>
    /\ UNCHANGED <<vars_lire, vars_restit>>

\* model.ModelSense = GRB.MAXIMIZE, model.update(), model.write("videos.mps"),
\* and the return to main, which calls resol_restit
BuildWrite ==
    /\ pc = "build_write"
    /\ pc' = "restit_optimize"
    /\ UNCHANGED <<vars_lire, vars_solver, vars_build, vars_restit>>

\* Any call of the solver interface, and the write of videos.mps, may raise:
\* nothing catches it, so it leaves build_model and main at once.
BuildPoints == {"build_env", "build_new_model", "build_cache", "build_capacity",
                "build_write"}

BuildRaises ==
    /\ pc \in BuildPoints
    /\ pc' = "raised"
    /\ UNCHANGED <<vars_lire, vars_solver, vars_build, vars_restit>>

build_model ==
    \/ BuildEnv
    \/ BuildNewModel
    \/ BuildRequest
    \/ BuildCache
    \/ BuildAssign
    \/ BuildCapacity
    \/ BuildWrite
    \/ BuildRaises

----------------------------------------------------------------------------
(* resol_restit *)

\* NoSolution testing "model.SolCount < 0"
NoSolutionNegative(sc) == sc < 0

\* "if model.SolCount == 0"
NoSolution(sc) == sc = 0

\* "if var.X > 0.5"
Stored(val) == val > Half

\* sorted(vlist), by insertion
RECURSIVE Insert(_, _)
Insert(s, v) ==
    IF s = <<>> THEN <<v>>
    ELSE IF v < Head(s) THEN <<v>> \o s
    ELSE <<Head(s)>> \o Insert(Tail(s), v)

\* sorted left out: the list in creation order
unsorted(s) == s

RECURSIVE sorted(_)
sorted(s) == IF s = <<>> THEN <<>> ELSE Insert(sorted(Tail(s)), Head(s))

\* cache_content after the first n items of x: c -> list of videos, as
\* "for (vid, cid), var in x.items(): if var.X > 0.5: cache_content[cid].append(vid)"
RECURSIVE CacheContent(_, _, _)
CacheContent(xs, val, n) ==
    IF n = 0 THEN [c \in 1..C |-> <<>>]
    ELSE LET before == CacheContent(xs, val, n - 1)
             vid == xs[n][1][1]
             cid == xs[n][1][2]
         IN IF Stored(val[xs[n][2]])
            THEN [before EXCEPT ![cid + 1] = Append(@, vid)]
            ELSE before

\* {c: sorted(vlist) for c, vlist in cache_content.items() if vlist}, built
\* from the first n caches of cache_content
RECURSIVE UsedCaches(_, _)
UsedCaches(cc, n) ==
    IF n = 0 THEN <<>>
    ELSE IF cc[n] # <<>>
         THEN Append(UsedCaches(cc, n - 1), <<n - 1, sorted(cc[n])>>)
         ELSE UsedCaches(cc, n - 1)

\* the lines written for the caches sorted(used_caches.keys()), one
\* "cid v1 v2 ..." each
RECURSIVE CacheLines(_, _)
CacheLines(uc, keys) ==
    IF keys = <<>> THEN <<>>
    ELSE <<<<Head(keys)>> \o DictGet(uc, Head(keys))>> \o CacheLines(uc, Tail(keys))

\* the whole file: the count of used caches, then the cache lines
OutputLines(uc) ==
    <<<<Len(uc)>>>> \o CacheLines(uc, sorted([i \in 1..Len(uc) |-> uc[i][1]]))

\* handles of the placement variables
XHandles == {x[i][2] : i \in 1..Len(x)}

\* values a solver may report for a binary variable: 0.0, 0.5, 1.0
SolvedValues == {0, Half, 2 * Half}

\* model.optimize(): any solution count, and with a solution any values
RestitOptimize ==
    /\ pc = "restit_optimize"
    /\ \E sc \in 0..MaxSol :
          /\ SolCount' = sc
          /\ IF sc = 0
             THEN Xval' = <<>>
             ELSE Xval' \in [XHandles -> SolvedValues]
    /\ pc' = "restit_check"
    /\ UNCHANGED <<env, model, vars, constrs>>
    /\ UNCHANGED <<vars_lire, vars_build, vars_restit>>

\* "if model.SolCount == 0": dispose and return without an output
RestitNoSolution ==
    /\ pc = "restit_check"
    /\ NoSolution(SolCount)
    /\ model' = "disposed"
    /\ env' = "disposed"
    /\ pc' = "done"
    /\ UNCHANGED <<vars, constrs, SolCount, Xval>>
    /\ UNCHANGED <<vars_lire, vars_build, vars_restit>>

\* model.MIPGap and model.ObjVal are read and printed
RestitReport ==
    /\ pc = "restit_check"
    /\ ~NoSolution(SolCount)
    /\ reads' = reads + 2
    /\ pc' = "restit_extract"
    /\ UNCHANGED <<used_caches, out>>
    /\ UNCHANGED <<vars_lire, vars_solver, vars_build>>

\* cache_content and used_caches
RestitExtract ==
    /\ pc = "restit_extract"
    /\ used_caches' = UsedCaches(CacheContent(x, Xval, Len(x)), C)
    /\ reads' = reads + Len(x)
    /\ pc' = "restit_write"
    /\ UNCHANGED out
    /\ UNCHANGED <<vars_lire, vars_solver, vars_build>>

\* "with open(output_path, "w") ...": the file is written
RestitWrite ==
    /\ pc = "restit_write"
    /\ out' = OutputLines(used_caches)
    /\ pc' = "restit_dispose"
    /\ UNCHANGED <<reads, used_caches>>
    /\ UNCHANGED <<vars_lire, vars_solver, vars_build>>

\* model.dispose(), env.dispose(), return to main, which returns 0
RestitDispose ==
    /\ pc = "restit_dispose"
    /\ model' = "disposed"
    /\ env' = "disposed"
    /\ pc' = "done"
    /\ UNCHANGED <<vars, constrs, SolCount, Xval>>
    /\ UNCHANGED <<vars_lire, vars_build, vars_restit>>

\* optimize, the reads of the solved attributes and the opening of the
\* output file may raise: nothing catches it
RestitPoints == {"restit_optimize", "restit_extract", "restit_write"}

RestitRaises ==
    /\ pc \in RestitPoints
    /\ pc' = "raised"
    /\ UNCHANGED <<vars_lire, vars_solver, vars_build, vars_restit>>

resol_restit ==
    \/ RestitOptimize
    \/ RestitNoSolution
    \/ RestitReport
    \/ RestitExtract
    \/ RestitWrite
    \/ RestitDispose
    \/ RestitRaises

----------------------------------------------------------------------------
(* main on a parsed instance: build_model, then resol_restit.  The instances *)
(* are those of the data model, within the bounds.                          *)

\* insertion-ordered dicts of n distinct cache ids with their latencies
CacheDicts(n) ==
    {d \in [1..n -> (0..(MaxC - 1)) \X (0..MaxLat)] :
        \A i, j \in 1..n : i # j => d[i][1] # d[j][1]}

EndpointSet ==
    {[ld |-> l, caches |-> d] :
        l \in 1..MaxLat, d \in UNION {CacheDicts(n) : n \in 0..MaxC}}

RequestLists(nE) ==
    UNION {{[i \in 1..n |-> [id |-> i - 1, video |-> q[i][1],
                             endpoint |-> q[i][2], count |-> q[i][3]]] :
              q \in [1..n -> (0..(MaxV - 1)) \X (0..(nE - 1)) \X (1..MaxN)]}
           : n \in 0..MaxR}

Init ==
    /\ pc = "build_env"
    /\ file = <<>>
    /\ pos = 0
    /\ V = MaxV
    /\ C = MaxC
    /\ X \in 1..MaxX
    /\ video_sizes \in [1..MaxV -> 1..MaxSize]
    /\ E \in 1..MaxEp
    /\ endpoints \in [1..E -> EndpointSet]
    /\ requests \in RequestLists(E)
    /\ R = Len(requests)
    /\ e = 0
    /\ ld_k = <<0, 0>>
    /\ cache_connections = <<>>
    /\ NoSolver

Next == build_model \/ resol_restit

Spec == Init /\ [][Next]_allvars

----------------------------------------------------------------------------
(* Vocabulary of the properties *)

\* build_model has registered everything (all requests, all capacity constraints)
AfterBuild == pc \in {"build_write", "restit_optimize", "restit_check",
                      "restit_extract", "restit_write", "restit_dispose", "done"}

\* control is back in the caller of main: normally, or by an exception
Returned == pc \in {"done", "raised"}

VideoIds == 0..(V - 1)
CacheIds == 0..(C - 1)
RequestIdx == 1..Len(requests)

\* the latencies with which cache c appears among the caches of request r's endpoint
LatenciesOf(r, c) ==
    LET items == endpoints[requests[r].endpoint + 1].caches
    IN {items[i][2] : i \in {j \in 1..Len(items) : items[j][1] = c}}

LdOf(r) == endpoints[requests[r].endpoint + 1].ld

Reachable(r, c) == LatenciesOf(r, c) # {}

\* c is reachable from r's endpoint and strictly faster than the data center
EligiblePair(r, c) == \E lc \in LatenciesOf(r, c) : lc < LdOf(r)

\* handles of the variables the solver was asked to create
PlacementVars(v, c) ==
    {h \in 1..Len(vars) : vars[h].kind = "x" /\ vars[h].a = v /\ vars[h].b = c}

ServingVars(r, c) ==
    {h \in 1..Len(vars) : vars[h].kind = "y" /\ vars[h].a = requests[r].id /\ vars[h].b = c}

ServingVarsOf(r) == UNION {ServingVars(r, c) : c \in CacheIds}

Constrs(kind, a, b) ==
    {i \in 1..Len(constrs) :
        constrs[i].kind = kind /\ constrs[i].a = a /\ constrs[i].b = b}

\* the constraint is exactly "y <= xh": y - xh <= 0
IsLink(i, y, xh) ==
    /\ constrs[i].terms = <<<<y, 1>>, <<xh, -1>>>>
    /\ constrs[i].rhs = 0

\* number of occurrences of term t in a linear expression
Occurrences(terms, t) == Cardinality({i \in 1..Len(terms) : terms[i] = t})

----------------------------------------------------------------------------
(* C1: once build_model has acquired the solver environment or model, both  *)
(* are released before control returns to the caller of main, on every exit *)
(* path: normal completion, the zero-solution return, and every exception   *)
(* raised while building, solving or writing.                               *)
C1_ReleasedOnEveryExit ==
    Returned => (env # "live" /\ model # "live")

(* C2: every cache line written to the output lists videos whose sizes sum  *)
(* to at most X; values that overfill a cache are never serialised.         *)
RECURSIVE SizeSum(_)
SizeSum(videos) ==
    IF videos = <<>> THEN 0
    ELSE video_sizes[Head(videos) + 1] + SizeSum(Tail(videos))

C2_OutputWithinCapacity ==
    out # "absent" =>
        \A i \in 2..Len(out) : SizeSum(Tail(out[i])) <= X

(* C3: when optimize reports zero solutions, resol_restit writes no output, *)
(* reads no solved value, releases model and environment and returns        *)
(* normally; the output is written only when SolCount > 0.                  *)
C3_NoSolutionNoOutput ==
    /\ SolCount = 0 =>
          /\ out = "absent"
          /\ reads = 0
          /\ pc \in {"restit_check", "done"}
          /\ pc = "done" => (env = "disposed" /\ model = "disposed")
    /\ out # "absent" => SolCount > 0

C3_Witness ==
    pc = "done" /\ SolCount = 0 /\ Len(x) > 0

(* C7: the output is a function of the set of (v, c) whose value exceeds    *)
(* 0.5: first line the number of caches holding a video, then one line per  *)
(* such cache in strictly ascending cache id, each listing exactly that     *)
(* cache's videos in strictly ascending id.                                 *)
StoredPairs == {x[i][1] : i \in {j \in 1..Len(x) : Xval[x[j][2]] > Half}}

StoredIn(c) == {p[1] : p \in {q \in StoredPairs : q[2] = c}}

C7_OutputCanonical ==
    out # "absent" =>
        LET used == {c \in CacheIds : StoredIn(c) # {}} IN
        /\ Len(out) = 1 + Cardinality(used)
        /\ out[1] = <<Cardinality(used)>>
        /\ \A i \in 2..Len(out) :
              /\ out[i][1] \in used
              /\ Len(out[i]) = 1 + Cardinality(StoredIn(out[i][1]))
              /\ {out[i][j] : j \in 2..Len(out[i])} = StoredIn(out[i][1])
              /\ \A j \in 2..(Len(out[i]) - 1) : out[i][j] < out[i][j + 1]
        /\ \A i \in 2..(Len(out) - 1) : out[i][1] < out[i + 1][1]

\* an output of two caches, one of them holding two videos created in
\* descending order of id, beside a variable whose value is exactly 0.5
C7_Witness ==
    /\ out # "absent"
    /\ Len(out) = 3
    /\ \E i, j \in 1..Len(x) :
          /\ i < j
          /\ x[i][1][2] = x[j][1][2]
          /\ x[i][1][1] > x[j][1][1]
          /\ x[i][1] \in StoredPairs
          /\ x[j][1] \in StoredPairs
    /\ \E i \in 1..Len(x) : Xval[x[i][2]] = Half

----------------------------------------------------------------------------
(* C4: at any point of build_model at most one placement variable has been  *)
(* created per (video, cache); once all requests are processed there is     *)
(* exactly one if some request for the video has the cache eligible; and    *)
(* every linking constraint of a request for v served from c refers to the  *)
(* single variable of (v, c).                                               *)
C4_SharedPlacementVariable ==
    /\ \A v \in VideoIds, c \in CacheIds : Cardinality(PlacementVars(v, c)) <= 1
    /\ AfterBuild =>
          \A v \in VideoIds, c \in CacheIds :
             LET users == {r \in RequestIdx : requests[r].video = v /\ EligiblePair(r, c)}
             IN /\ Cardinality(PlacementVars(v, c)) = IF users # {} THEN 1 ELSE 0
                /\ \A r \in users :
                      \A i \in Constrs("link", requests[r].id, c) :
                         \E y \in ServingVars(r, c), xh \in PlacementVars(v, c) :
                            IsLink(i, y, xh)

\* two requests share an eligible (video, cache) pair
C4_Witness ==
    /\ AfterBuild
    /\ \E r1, r2 \in RequestIdx, c \in CacheIds :
          /\ r1 # r2
          /\ requests[r1].video = requests[r2].video
          /\ EligiblePair(r1, c)
          /\ EligiblePair(r2, c)

(* C5: a serving variable exists for (r, c) exactly when c is reachable     *)
(* from r's endpoint with latency < ld; a pair with latency >= ld gets no   *)
(* serving variable, no linking constraint, and no placement variable       *)
(* unless another request makes (video, c) eligible; each serving variable  *)
(* has objective coefficient (ld - lc) * n > 0.                             *)
C5_EligibilityPruning ==
    AfterBuild =>
       /\ \A r \in RequestIdx, c \in CacheIds :
             /\ Cardinality(ServingVars(r, c)) = IF EligiblePair(r, c) THEN 1 ELSE 0
             /\ ~EligiblePair(r, c) => Constrs("link", requests[r].id, c) = {}
             /\ \A h \in ServingVars(r, c) :
                   /\ vars[h].obj > 0
                   /\ \E lc \in LatenciesOf(r, c) :
                         vars[h].obj = (LdOf(r) - lc) * requests[r].count
       /\ \A v \in VideoIds, c \in CacheIds :
             (\A r \in RequestIdx : requests[r].video = v => ~EligiblePair(r, c))
                => PlacementVars(v, c) = {}
       /\ \A h \in 1..Len(vars) : vars[h].kind = "x" => vars[h].obj = 0

\* a request with a reachable cache pruned at latency = ld and an eligible
\* one, beside another request for another video
C5_Witness ==
    /\ AfterBuild
    /\ \E r \in RequestIdx, c1, c2 \in CacheIds :
          /\ LdOf(r) \in LatenciesOf(r, c1)
          /\ EligiblePair(r, c2)
    /\ \E r1, r2 \in RequestIdx : requests[r1].video # requests[r2].video

(* C6: a request with an eligible cache has exactly one assignment          *)
(* constraint, whose terms are its serving variables, each once, with bound *)
(* 1, so any assignment satisfying the registered constraints serves it     *)
(* from at most one cache; a request without eligible cache has no          *)
(* assignment constraint and no variable; every serving variable has        *)
(* exactly one linking constraint y(r,c) <= x(video(r),c).                  *)
RECURSIVE Lhs(_, _)
Lhs(terms, a) ==
    IF terms = <<>> THEN 0
    ELSE Head(terms)[2] * a[Head(terms)[1]] + Lhs(Tail(terms), a)

Satisfies(a, i) == Lhs(constrs[i].terms, a) <= constrs[i].rhs

Assignments == [1..Len(vars) -> {0, 1}]

Feasible == {a \in Assignments : \A i \in 1..Len(constrs) : Satisfies(a, i)}

RECURSIVE SumOver(_, _)
SumOver(S, a) ==
    IF S = {} THEN 0
    ELSE LET h == CHOOSE h \in S : TRUE IN a[h] + SumOver(S \ {h}, a)

AllAssignConstrs(r) ==
    {i \in 1..Len(constrs) : constrs[i].kind = "assign" /\ constrs[i].a = requests[r].id}

C6_AssignmentConstraint ==
    AfterBuild =>
       /\ \A r \in RequestIdx :
             LET ys == ServingVarsOf(r)
                 as == AllAssignConstrs(r)
             IN IF ys = {}
                THEN as = {}
                ELSE /\ Cardinality(as) = 1
                     /\ \A i \in as :
                           /\ constrs[i].rhs = 1
                           /\ Len(constrs[i].terms) = Cardinality(ys)
                           /\ \A y \in ys : Occurrences(constrs[i].terms, <<y, 1>>) = 1
       /\ \A r \in RequestIdx, c \in CacheIds :
             \A y \in ServingVars(r, c) :
                /\ Cardinality(Constrs("link", requests[r].id, c)) = 1
                /\ \A i \in Constrs("link", requests[r].id, c) :
                      \E xh \in PlacementVars(requests[r].video, c) : IsLink(i, y, xh)
       /\ pc = "restit_optimize" =>
             \A a \in Feasible : \A r \in RequestIdx : SumOver(ServingVarsOf(r), a) <= 1

\* a request with two eligible caches, and an assignment of the variables
\* that serves it from both, which the constraints exclude
C6_Witness ==
    /\ pc = "restit_optimize"
    /\ \E r \in RequestIdx :
          /\ Cardinality(ServingVarsOf(r)) = 2
          /\ \E a \in Assignments \ Feasible : SumOver(ServingVarsOf(r), a) = 2

(* C10: once all requests are processed, a cache has exactly one capacity   *)
(* constraint if a placement variable was created for it and none           *)
(* otherwise; the constraint is the sum of size(v) * x(v,c) over exactly    *)
(* the placement variables of that cache, each once, bounded by X.          *)
PlacementVarsAt(c) == UNION {PlacementVars(v, c) : v \in VideoIds}

AllCapConstrs(c) ==
    {i \in 1..Len(constrs) : constrs[i].kind = "cap" /\ constrs[i].b = c}

C10_CapacityConstraint ==
    AfterBuild =>
       /\ \A c \in CacheIds :
             LET xs == PlacementVarsAt(c)
                 caps == AllCapConstrs(c)
             IN /\ Cardinality(caps) = IF xs # {} THEN 1 ELSE 0
                /\ \A i \in caps :
                      /\ constrs[i].rhs = X
                      /\ Len(constrs[i].terms) = Cardinality(xs)
                      /\ \A h \in xs :
                            Occurrences(constrs[i].terms,
                                        <<h, video_sizes[vars[h].a + 1]>>) = 1
       /\ \A i \in 1..Len(constrs) : constrs[i].kind = "cap" => constrs[i].b \in CacheIds

\* a cache whose placement variable is shared by two requests, a cache with
\* two placement variables, and a cache with none
C10_Witness ==
    /\ AfterBuild
    /\ \E c \in CacheIds : PlacementVarsAt(c) = {}
    /\ \E c \in CacheIds, r1, r2 \in RequestIdx :
          /\ r1 # r2
          /\ requests[r1].video = requests[r2].video
          /\ EligiblePair(r1, c) /\ EligiblePair(r2, c)

----------------------------------------------------------------------------
(* C9: the optimum of the model registered by build_model, which skips the  *)
(* pairs with lc >= ld, equals the optimum of the formulation that has a    *)
(* serving variable of coefficient (ld - lc) * n for every reachable        *)
(* (request, cache) pair: placements within capacity, each request served   *)
(* from at most one reachable cache holding its video.                      *)
Max(S) == CHOOSE m \in S : \A n \in S : n <= m

RECURSIVE Objective(_, _)
Objective(h, a) ==
    IF h = 0 THEN 0 ELSE vars[h].obj * a[h] + Objective(h - 1, a)

\* optimum of the registered model, by enumeration of the binary assignments
ModelOptimum == Max({Objective(Len(vars), a) : a \in Feasible})

LatencyOf(r, c) == CHOOSE lc \in LatenciesOf(r, c) : TRUE

ReachablePairs ==
    {p \in VideoIds \X CacheIds :
        \E r \in RequestIdx : requests[r].video = p[1] /\ Reachable(r, p[2])}

RECURSIVE SizeOfSet(_)
SizeOfSet(S) ==
    IF S = {} THEN 0
    ELSE LET v == CHOOSE v \in S : TRUE IN video_sizes[v + 1] + SizeOfSet(S \ {v})

Placements ==
    {P \in SUBSET ReachablePairs :
        \A c \in CacheIds : SizeOfSet({p[1] : p \in {q \in P : q[2] = c}}) <= X}

\* per request the cache that serves it, or -1 for the data center
Servings(P) ==
    {s \in [RequestIdx -> CacheIds \cup {-1}] :
        \A r \in RequestIdx :
           s[r] # -1 => (Reachable(r, s[r]) /\ <<requests[r].video, s[r]>> \in P)}

RECURSIVE ServingValue(_, _)
ServingValue(r, s) ==
    IF r = 0 THEN 0
    ELSE (IF s[r] = -1 THEN 0
          ELSE (LdOf(r) - LatencyOf(r, s[r])) * requests[r].count)
         + ServingValue(r - 1, s)

UnprunedOptimum ==
    Max(UNION {{ServingValue(Len(requests), s) : s \in Servings(P)} : P \in Placements})

C9_PruningKeepsOptimum ==
    pc = "restit_optimize" => ModelOptimum = UnprunedOptimum

\* a built model from which a pair was pruned, with a positive optimum that
\* the capacity keeps below the sum of all savings
C9_Witness ==
    /\ pc = "restit_optimize"
    /\ \E r \in RequestIdx, c \in CacheIds : Reachable(r, c) /\ ~EligiblePair(r, c)
    /\ ModelOptimum > 0
    /\ \E a \in Assignments : Objective(Len(vars), a) > ModelOptimum

----------------------------------------------------------------------------
(* C8: lire_instance returns an instance, with as many sizes, endpoints and *)
(* requests as the header declares, exactly when the file is a 5-field      *)
(* header, a size line of V fields, E endpoint blocks (a 2-field header     *)
(* "ld k" then k 2-field cache lines) and R 3-field request lines, and      *)
(* nothing else; every other file ends in a parse error.                    *)

\* number of the line after nb endpoint blocks that start after line p, or
\* -1 when the lines after p do not start with nb endpoint blocks
RECURSIVE BlocksEnd(_, _, _)
BlocksEnd(f, p, nb) ==
    IF nb = 0 THEN p
    ELSE IF p + 1 > Len(f) \/ Len(f[p + 1]) # 2 THEN -1
    ELSE LET k == f[p + 1][2] IN
         IF p + 1 + k > Len(f) \/ \E i \in (p + 2)..(p + 1 + k) : Len(f[i]) # 2
         THEN -1
         ELSE BlocksEnd(f, p + 1 + k, nb - 1)

WellFormed(f) ==
    /\ Len(f) >= 2
    /\ Len(f[1]) = 5
    /\ Len(f[2]) = f[1][1]
    /\ LET q == BlocksEnd(f, 2, f[1][2]) IN
       /\ q >= 0
       /\ Len(f) = q + f[1][3]
       /\ \A i \in (q + 1)..Len(f) : Len(f[i]) = 3

C8_ParsesExactlyWellFormed ==
    /\ pc = "lire_returned" =>
          /\ WellFormed(file)
          /\ Len(video_sizes) = V /\ Len(endpoints) = E /\ Len(requests) = R
    /\ pc = "lire_raised" => ~WellFormed(file)

====
